---- MODULE Spec2Model ----
(***************************************************************************)
(* Model of the content rule bookkeeping of the extension:                 *)
(*   - MultiMap (key -> ordered array of values, with a tracked size)      *)
(*   - ContentFilter (contentRules, exceptionRulesMap, dirty) and the      *)
(*     lazy application / rollback of exception rules.                     *)
(* Rule objects are references; the only mutable part of a rule that the   *)
(* filter touches is its restricted-domain set.                            *)
(* and of two parts of webrequest.js:                                      *)
(*   - the listener that debounces handlerBehaviorChanged after rule       *)
(*     changes (handlerBehaviorTimeout and the browser's timers)           *)
(*   - the webNavigation.onCommitted listeners that inject scripts and     *)
(*     CSS into recorded frames (executedJS / insertedCSS of a frame).     *)
(***************************************************************************)
EXTENDS Integers, Sequences, FiniteSets, TLC

(* ------------------------------ bounds --------------------------------- *)
\* longest contentRules array explored
MaxRules == 2
\* largest number of exception rule occurrences held by exceptionRulesMap
MaxExceptions == 2
\* longest initial rule collection handed to the constructor
MaxSeed == 2
\* longest value array explored per key of the stand-alone MultiMap
MaxValues == 2
\* largest tracked size explored for the stand-alone MultiMap
MaxSize == 3
\* largest number of timers started by rule-change events
MaxTimers == 3
\* largest number of frame records created
MaxFrames == 2

(* --------------------------- JS value helpers -------------------------- *)
\* the JS value undefined (an absent property)
Undefined == "<undefined>"

\* JS truthiness of a string-or-undefined property, as used by `!rule.tagName`
Falsy(x) == x \in {Undefined, ""}

\* property-key coercion of `this.map[key]`: undefined becomes "undefined"
PropKey(k) == IF k = Undefined THEN "undefined" ELSE k

\* the value null returned by getRulesForDomain, kept apart from an empty array
Null == [isNull |-> TRUE, items |-> <<>>]
Array(s) == [isNull |-> FALSE, items |-> s]

(* ------------------------------ rules ---------------------------------- *)
Domains == {"a.com", "b.com"}

FilterRule(tag, filter, wl, permitted) ==
    [tagName |-> tag, elementsFilter |-> filter,
     whiteListRule |-> wl, permittedDomains |-> permitted]

\* The rule objects the callers hold.  An empty permittedDomains set means
\* the rule is not limited to particular domains.  N1 and N2 are rules for
\* which parsing produced no tag name (and hence no elements filter).
Rules ==
    [R1 |-> FilterRule("div", "K1", FALSE, {}),
     R2 |-> FilterRule("div", "K1", FALSE, {"a.com"}),
     R3 |-> FilterRule("span", "K2", FALSE, {}),
     E1 |-> FilterRule("div", "K1", TRUE, {"a.com"}),
     E2 |-> FilterRule("div", "K1", TRUE, {"a.com", "b.com"}),
     E3 |-> FilterRule("span", "K2", TRUE, {"b.com"}),
     N1 |-> FilterRule(Undefined, Undefined, FALSE, {}),
     N2 |-> FilterRule("", Undefined, TRUE, {"a.com"})]

RuleIds == DOMAIN Rules
NoRule == "none"
NoDomain == "none"

\* restricted-domain sets each regular rule may carry when it is created
OwnRestrictedSets ==
    [R1 |-> {{}, {"a.com"}}, R2 |-> {{}}, R3 |-> {{}},
     E1 |-> {{}}, E2 |-> {{}}, E3 |-> {{}}, N1 |-> {{}}, N2 |-> {{}}]

getPermittedDomains(r) == Rules[r].permittedDomains

\* rule.elementsFilter
KeyOf(r) == Rules[r].elementsFilter

\* rule.isPermitted(domainName), over the rule's current restricted set
isPermitted(restr, r, d) ==
    /\ d \notin restr[r]
    /\ \/ Rules[r].permittedDomains = {}
       \/ d \in Rules[r].permittedDomains

\* rule.addRestrictedDomains(domains)
addRestrictedDomains(restr, r, domains) ==
    [restr EXCEPT ![r] = @ \cup domains]

\* rule.removeRestrictedDomains(domains)
removeRestrictedDomains(restr, r, domains) ==
    [restr EXCEPT ![r] = @ \ domains]

\* documents handed to getMatchedElements
Docs == {"doc1"}

NoElements == [r \in RuleIds |-> Null]

\* rule.getMatchedElements(doc): the elements of each document that each
\* rule selects; an empty array or null when it selects nothing
MatchedElements ==
    [doc1 |-> [NoElements EXCEPT !["R1"] = Array(<<"e1", "e2">>),
                                 !["R2"] = Array(<< >>),
                                 !["R3"] = Array(<<"e3">>)]]

ruleGetMatchedElements(r, doc) == MatchedElements[doc][r]

(* ------------------------ collections.removeRule ----------------------- *)
RECURSIVE IndexOfFrom(_, _, _)
IndexOfFrom(s, v, i) ==
    IF i > Len(s) THEN 0
    ELSE IF s[i] = v THEN i
    ELSE IndexOfFrom(s, v, i + 1)

\* removes the first occurrence of value (by identity), if any
CollectionsRemoveRule(s, v) ==
    LET i == IndexOfFrom(s, v, 1)
    IN  IF i = 0 THEN s
        ELSE SubSeq(s, 1, i - 1) \o SubSeq(s, i + 1, Len(s))

(* ------------------------------ MultiMap ------------------------------- *)
\* new MultiMap(): map = Object.create(null), size = 0
NewMultiMap == [map |-> << >>, size |-> 0]

MultiMapHas(m, key) == PropKey(key) \in DOMAIN m.map

\* this.get(key); use only where MultiMapHas holds, otherwise undefined
MultiMapGet(m, key) == m.map[PropKey(key)]

MultiMapPutBadSize(m, key, value) ==
    LET k == PropKey(key)
        vals == IF k \in DOMAIN m.map THEN m.map[k] ELSE << >>
    IN  [map  |-> [x \in (DOMAIN m.map) \cup {k} |->
                     IF x = k THEN Append(vals, value) ELSE m.map[x]],
         size |-> m.size + 1]

MultiMapPut(m, key, value) ==
    LET k == PropKey(key)
        isNew == k \notin DOMAIN m.map
        vals == IF isNew THEN << >> ELSE m.map[k]
    IN  [map  |-> [x \in (DOMAIN m.map) \cup {k} |->
                     IF x = k THEN Append(vals, value) ELSE m.map[x]],
         size |-> IF isNew THEN m.size + 1 ELSE m.size]

MultiMapRemoveAll(m, key, value) ==
    LET k == PropKey(key)
    IN  IF k \notin DOMAIN m.map THEN m
        ELSE [map  |-> [x \in (DOMAIN m.map) \ {k} |-> m.map[x]],
              size |-> m.size - 1]

MultiMapRemove(m, key, value) ==
    LET k == PropKey(key)
    IN  IF k \notin DOMAIN m.map THEN m
        ELSE LET vals == CollectionsRemoveRule(m.map[k], value)
             IN  IF Len(vals) = 0
                 THEN [map  |-> [x \in (DOMAIN m.map) \ {k} |-> m.map[x]],
                       size |-> m.size - 1]
                 ELSE [map  |-> [m.map EXCEPT ![k] = vals],
                       size |-> m.size]

\* this.clear(): only the map is replaced
MultiMapClear(m) == [map |-> << >>, size |-> m.size]

MultiMapIsEmpty(m) == m.size = 0

(* ---------------------------- ContentFilter ---------------------------- *)
\* A filter value f is the record
\*   [contentRules, exceptionRulesMap, dirty, restricted]
\* where restricted holds the restricted-domain set of every rule object.

applyExceptionRule(restr, rule, exceptionRule) ==
    IF Rules[rule].elementsFilter # Rules[exceptionRule].elementsFilter
    THEN restr
    ELSE addRestrictedDomains(restr, rule, getPermittedDomains(exceptionRule))

RECURSIVE ApplyExceptionLoop(_, _, _, _)
ApplyExceptionLoop(restr, rule, exceptionRules, i) ==
    IF i > Len(exceptionRules) THEN restr
    ELSE ApplyExceptionLoop(applyExceptionRule(restr, rule, exceptionRules[i]),
                            rule, exceptionRules, i + 1)

applyExceptionRules(f, restr, rule) ==
    IF MultiMapHas(f.exceptionRulesMap, Rules[rule].elementsFilter)
    THEN ApplyExceptionLoop(restr, rule,
             MultiMapGet(f.exceptionRulesMap, Rules[rule].elementsFilter), 1)
    ELSE restr

RECURSIVE RebuildLoop(_, _, _)
RebuildLoop(f, restr, i) ==
    IF i > Len(f.contentRules) THEN restr
    ELSE RebuildLoop(f, applyExceptionRules(f, restr, f.contentRules[i]), i + 1)

rebuildNoApply(f) == [f EXCEPT !.dirty = FALSE]

rebuildKeepDirty(f) ==
    IF ~f.dirty THEN f
    ELSE [f EXCEPT
            !.restricted = IF ~MultiMapIsEmpty(f.exceptionRulesMap)
                           THEN RebuildLoop(f, f.restricted, 1)
                           ELSE @]

rebuildSkipWhenEmpty(f) ==
    IF ~f.dirty \/ MultiMapIsEmpty(f.exceptionRulesMap) THEN f
    ELSE [f EXCEPT !.restricted = RebuildLoop(f, f.restricted, 1),
                   !.dirty = FALSE]

rebuild(f) ==
    IF ~f.dirty THEN f
    ELSE [f EXCEPT
            !.restricted = IF ~MultiMapIsEmpty(f.exceptionRulesMap)
                           THEN RebuildLoop(f, f.restricted, 1)
                           ELSE @,
            !.dirty = FALSE]

RECURSIVE RollbackLoopAllKeys(_, _, _, _)
RollbackLoopAllKeys(contentRules, restr, exceptionRule, i) ==
    IF i > Len(contentRules) THEN restr
    ELSE RollbackLoopAllKeys(contentRules,
             removeRestrictedDomains(restr, contentRules[i],
                                     getPermittedDomains(exceptionRule)),
             exceptionRule, i + 1)

RECURSIVE RollbackLoop(_, _, _, _)
RollbackLoop(contentRules, restr, exceptionRule, i) ==
    IF i > Len(contentRules) THEN restr
    ELSE LET rule == contentRules[i]
         IN  RollbackLoop(contentRules,
                 IF Rules[rule].elementsFilter = Rules[exceptionRule].elementsFilter
                 THEN removeRestrictedDomains(restr, rule,
                                              getPermittedDomains(exceptionRule))
                 ELSE restr,
                 exceptionRule, i + 1)

rollbackExceptionRuleAnyRule(f, exceptionRule) ==
    [f EXCEPT !.restricted =
         RollbackLoop(f.contentRules, f.restricted, exceptionRule, 1)]

rollbackExceptionRule(f, exceptionRule) ==
    IF ~Rules[exceptionRule].whiteListRule THEN f
    ELSE [f EXCEPT !.restricted =
                RollbackLoop(f.contentRules, f.restricted, exceptionRule, 1)]

addRuleNoCheck(f, rule) ==
    IF Rules[rule].whiteListRule
    THEN [f EXCEPT !.exceptionRulesMap =
                       MultiMapPut(@, Rules[rule].elementsFilter, rule),
                   !.dirty = TRUE]
    ELSE [f EXCEPT !.contentRules = Append(@, rule), !.dirty = TRUE]

addRuleBoth(f, rule) ==
    IF Falsy(Rules[rule].tagName) THEN f
    ELSE IF Rules[rule].whiteListRule
    THEN [f EXCEPT !.exceptionRulesMap =
                       MultiMapPut(@, Rules[rule].elementsFilter, rule),
                   !.contentRules = Append(@, rule),
                   !.dirty = TRUE]
    ELSE [f EXCEPT !.contentRules = Append(@, rule), !.dirty = TRUE]

addRuleCleanRegular(f, rule) ==
    IF Falsy(Rules[rule].tagName) THEN f
    ELSE IF Rules[rule].whiteListRule
    THEN [f EXCEPT !.exceptionRulesMap =
                       MultiMapPut(@, Rules[rule].elementsFilter, rule),
                   !.dirty = TRUE]
    ELSE [f EXCEPT !.contentRules = Append(@, rule)]

addRule(f, rule) ==
    IF Falsy(Rules[rule].tagName) THEN f
    ELSE IF Rules[rule].whiteListRule
    THEN [f EXCEPT !.exceptionRulesMap =
                       MultiMapPut(@, Rules[rule].elementsFilter, rule),
                   !.dirty = TRUE]
    ELSE [f EXCEPT !.contentRules = Append(@, rule), !.dirty = TRUE]

removeRuleKeepDirty(f, rule) ==
    LET f1 == [f EXCEPT
                 !.contentRules = CollectionsRemoveRule(@, rule),
                 !.exceptionRulesMap =
                     MultiMapRemove(@, Rules[rule].elementsFilter, rule)]
    IN  rollbackExceptionRule(f1, rule)

removeRuleDirtyIfRegular(f, rule) ==
    LET f1 == [f EXCEPT
                 !.contentRules = CollectionsRemoveRule(@, rule),
                 !.exceptionRulesMap =
                     MultiMapRemove(@, Rules[rule].elementsFilter, rule)]
        f2 == rollbackExceptionRule(f1, rule)
    IN  [f2 EXCEPT !.dirty = @ \/ ~Rules[rule].whiteListRule]

removeRuleKeepContent(f, rule) ==
    LET f1 == [f EXCEPT
                 !.exceptionRulesMap =
                     MultiMapRemove(@, Rules[rule].elementsFilter, rule)]
        f2 == rollbackExceptionRule(f1, rule)
    IN  [f2 EXCEPT !.dirty = TRUE]

removeRule(f, rule) ==
    LET f1 == [f EXCEPT
                 !.contentRules = CollectionsRemoveRule(@, rule),
                 !.exceptionRulesMap =
                     MultiMapRemove(@, Rules[rule].elementsFilter, rule)]
        f2 == rollbackExceptionRule(f1, rule)
    IN  [f2 EXCEPT !.dirty = TRUE]

\* the filtering loop of getRulesForDomain: result starts as null and
\* becomes an array on the first permitted rule
RECURSIVE FilterLoop(_, _, _, _)
FilterLoop(f, domainName, result, i) ==
    IF i > Len(f.contentRules) THEN result
    ELSE LET rule == f.contentRules[i]
         IN  FilterLoop(f, domainName,
                 IF isPermitted(f.restricted, rule, domainName)
                 THEN Array(Append(result.items, rule))
                 ELSE result,
                 i + 1)

\* returns the filter after the call and the returned value
getRulesForDomainEmptyArray(f, domainName) ==
    LET f1 == IF f.dirty THEN rebuild(f) ELSE f
    IN  [filter |-> f1, result |-> FilterLoop(f1, domainName, Array(<< >>), 1)]

getRulesForDomain(f, domainName) ==
    LET f1 == IF f.dirty THEN rebuild(f) ELSE f
    IN  [filter |-> f1, result |-> FilterLoop(f1, domainName, Null, 1)]

\* the loop of the constructor over its initial rules
RECURSIVE ConstructLoop(_, _, _)
ConstructLoop(f, rules, i) ==
    IF i > Len(rules) THEN f
    ELSE ConstructLoop(addRule(f, rules[i]), rules, i + 1)

ContentFilterCleanAfter(rules, restr) ==
    LET f0 == [contentRules |-> << >>,
               exceptionRulesMap |-> NewMultiMap,
               dirty |-> FALSE,
               restricted |-> restr]
    IN  IF rules.isNull THEN f0
        ELSE [ConstructLoop(f0, rules.items, 1) EXCEPT !.dirty = FALSE]

\* new ContentFilter(rules): rules is null when no collection is passed;
\* restr holds the restricted-domain sets of the rule objects
ContentFilter(rules, restr) ==
    LET f0 == [contentRules |-> << >>,
               exceptionRulesMap |-> NewMultiMap,
               dirty |-> FALSE,
               restricted |-> restr]
    IN  IF rules.isNull THEN f0
        ELSE ConstructLoop(f0, rules.items, 1)

\* number of times the body of rebuild runs past its dirty guard
rebuildPasses(f) == IF ~f.dirty THEN 0 ELSE 1

\* rebuild passes made by one getRulesForDomain call
getRulesForDomainPasses(f) == IF f.dirty THEN rebuildPasses(f) ELSE 0

\* the loop of getMatchedElementsForRules: result starts as null and is
\* replaced by result.concat(elements) for every rule that selects something
RECURSIVE MatchLoop(_, _, _, _)
MatchLoop(doc, rules, result, i) ==
    IF i > Len(rules) THEN result
    ELSE LET elements == ruleGetMatchedElements(rules[i], doc)
         IN  MatchLoop(doc, rules,
                 IF ~elements.isNull /\ Len(elements.items) > 0
                 THEN Array(result.items \o elements.items)
                 ELSE result,
                 i + 1)

getMatchedElementsForRulesEmptyArray(doc, rules) ==
    IF rules.isNull \/ Len(rules.items) = 0 THEN Null
    ELSE MatchLoop(doc, rules.items, Array(<< >>), 1)

getMatchedElementsForRules(doc, rules) ==
    IF rules.isNull \/ Len(rules.items) = 0 THEN Null
    ELSE MatchLoop(doc, rules.items, Null, 1)

\* returns the filter after the call, the returned value and the number of
\* rebuild passes made
getMatchedElements(f, doc, domainName) ==
    LET f1 == IF f.dirty THEN rebuild(f) ELSE f
        p1 == IF f.dirty THEN rebuildPasses(f) ELSE 0
        r  == getRulesForDomain(f1, domainName)
    IN  [filter |-> r.filter,
         result |-> IF ~r.result.isNull
                    THEN getMatchedElementsForRules(doc, r.result)
                    ELSE Null,
         passes |-> p1 + getRulesForDomainPasses(f1)]

(* ============ webrequest.js: debounce of rule-change events ============ *)
\* the events after which the browser's in-memory cache must be flushed
RuleChangeEvents ==
    {"ADD_RULES", "REMOVE_RULE", "UPDATE_FILTER_RULES",
     "UPDATE_WHITELIST_FILTER_RULES", "FILTER_ENABLE_DISABLE"}

\* an event the listener receives and falls through
OtherEvents == {"UPDATE_TAB_BUTTON_STATE"}

ListenerEvents == RuleChangeEvents \cup OtherEvents

\* delay, in milliseconds, handed to setTimeout
HandlerBehaviorDelay == 3000

\* the amounts of time, in milliseconds, that may pass in one step
Elapsed == {1000, 3000}

\* the value of handlerBehaviorTimeout: null, or the id setTimeout returned
NoTimeout == [isNull |-> TRUE, id |-> 0]
TimeoutId(id) == [isNull |-> FALSE, id |-> id]

\* The browser's timers are a set of [id, remaining] records and the id the
\* next setTimeout returns.  b is the record
\* [handlerBehaviorTimeout, timers, nextTimerId].
setTimeout(b, delay) ==
    [b EXCEPT !.timers = @ \cup {[id |-> b.nextTimerId, remaining |-> delay]},
              !.nextTimerId = @ + 1]

\* cancels the timer of that id, whether or not it is already due
clearTimeout(b, id) ==
    [b EXCEPT !.timers = {t \in @ : t.id # id}]

\* the listener without the clearTimeout of the pending timer
handlerBehaviorListenerNoClear(b, event) ==
    IF event \in RuleChangeEvents
    THEN [setTimeout(b, HandlerBehaviorDelay)
             EXCEPT !.handlerBehaviorTimeout = TimeoutId(b.nextTimerId)]
    ELSE b

\* the listener added with adguard.listeners.addListener
handlerBehaviorListener(b, event) ==
    IF event \in RuleChangeEvents
    THEN LET b1 == IF ~b.handlerBehaviorTimeout.isNull
                   THEN clearTimeout(b, b.handlerBehaviorTimeout.id)
                   ELSE b
         IN  [setTimeout(b1, HandlerBehaviorDelay)
                 EXCEPT !.handlerBehaviorTimeout = TimeoutId(b1.nextTimerId)]
    ELSE b

\* the browser takes due timer t off its timers and runs the callback, which
\* resets handlerBehaviorTimeout (and then calls handlerBehaviorChanged)
handlerBehaviorCallback(b, t) ==
    [b EXCEPT !.timers = @ \ {t},
              !.handlerBehaviorTimeout = NoTimeout]

\* the timers after ms milliseconds have passed
TimersAfter(timers, ms) ==
    {[id |-> t.id,
      remaining |-> IF t.remaining > ms THEN t.remaining - ms ELSE 0] :
        t \in timers}

(* ========== webrequest.js: injection into committed frames ============= *)
TabIds == {1}
\* frame 0 is the top frame of a tab
TopFrameId == 0
FrameIds == {TopFrameId, 1}
FrameKeys == TabIds \X FrameIds

\* getTabFrame found no frame
NoFrame == 0

\* a frame record as adguard.frames.recordFrame creates it
NewFrame == [executedJS |-> FALSE, insertedCSS |-> FALSE]

\* result.scripts of processGetSelectorsAndScripts: undefined, or a string
\* (a sequence of characters)
NoScripts == [isUndefined |-> TRUE, chars |-> << >>]
Scripts(chars) == [isUndefined |-> FALSE, chars |-> chars]
ScriptsResults == {NoScripts, Scripts(<< >>), Scripts(<<"s">>)}

\* JS truthiness of result.scripts
ScriptsFalsy(s) == s.isUndefined \/ Len(s.chars) = 0

\* result.selectors of processGetSelectorsAndScripts: undefined, or an object
\* whose css is absent or an array of stylesheets
NoSelectors == [isUndefined |-> TRUE, css |-> Null]
Selectors(css) == [isUndefined |-> FALSE, css |-> css]
SelectorsResults ==
    {NoSelectors, Selectors(Null), Selectors(Array(<< >>)),
     Selectors(Array(<<"css1">>))}

\* details of a webNavigation.onCommitted event
Details == [tabId : TabIds, frameId : FrameIds]

\* The frames are the record p = [tabFrames, frameObjects, apiCalls]:
\* frameObjects holds the frame records ever created, tabFrames the record
\* that each (tabId, frameId) currently refers to, apiCalls the calls made
\* to adguard.tabs.executeScript and adguard.tabs.insertCSS.
getTabFrame(p, tabId, frameId) == p.tabFrames[<<tabId, frameId>>]

recordFrame(p, tabId, frameId) ==
    [p EXCEPT !.frameObjects = Append(@, NewFrame),
              !.tabFrames[<<tabId, frameId>>] = Len(p.frameObjects) + 1]

ApiCall(api, tabId, frameId, frame) ==
    [api |-> api, tabId |-> tabId, frameId |-> frameId, frame |-> frame]

\* tryInjectScripts without the update of the frame's metadata
tryInjectScriptsNoMark(p, tabId, frameId, frame, scripts) ==
    [p EXCEPT !.apiCalls = Append(@, ApiCall("executeScript", tabId, frameId,
                                             frame))]

\* executes the scripts in the frame and marks the frame record
tryInjectScripts(p, tabId, frameId, frame, scripts) ==
    [p EXCEPT !.apiCalls = Append(@, ApiCall("executeScript", tabId, frameId,
                                             frame)),
              !.frameObjects[frame].executedJS = TRUE]

\* the onCommitted listener of fastScriptRulesLoader
onCommittedScripts(p, details, scripts) ==
    LET tabId == details.tabId
        frameId == details.frameId
        frame == getTabFrame(p, tabId, frameId)
    IN  IF frame = NoFrame \/ p.frameObjects[frame].executedJS
        THEN p
        ELSE IF ScriptsFalsy(scripts) \/ Len(scripts.chars) = 0
        THEN p
        ELSE tryInjectScripts(p, tabId, frameId, frame, scripts)

\* inserts the stylesheets into the tab (tabs.insertCSS is given no frameId)
\* and marks the frame record
tryInsertCss(p, tabId, frameId, frame, css) ==
    [p EXCEPT !.apiCalls = Append(@, ApiCall("insertCSS", tabId, frameId,
                                             frame)),
              !.frameObjects[frame].insertedCSS = TRUE]

\* the onCommitted listener of insertCSS
onCommittedCss(p, details, selectors) ==
    LET tabId == details.tabId
        frameId == details.frameId
        frame == getTabFrame(p, tabId, frameId)
    IN  IF frameId # TopFrameId
        THEN p
        ELSE IF frame = NoFrame \/ p.frameObjects[frame].insertedCSS
        THEN p
        ELSE IF selectors.isUndefined \/ selectors.css.isNull
        THEN p
        ELSE tryInsertCss(p, tabId, frameId, frame, selectors.css)

\* the listeners that webNavigation.onCommitted calls, in the order they
\* were added; neither is added in the Edge browser
onCommitted(p, edge, details, scripts, selectors) ==
    LET shouldUseExecuteScript == ~edge
        shouldUseInsertCSS == ~edge
        p1 == IF shouldUseExecuteScript
              THEN onCommittedScripts(p, details, scripts)
              ELSE p
    IN  IF shouldUseInsertCSS
        THEN onCommittedCss(p1, details, selectors)
        ELSE p1

(* ------------------------------- state --------------------------------- *)
VARIABLES
    contentRules,       \* ContentFilter.contentRules
    exceptionRulesMap,  \* ContentFilter.exceptionRulesMap (a MultiMap)
    dirty,              \* ContentFilter.dirty
    restricted,         \* restricted-domain set of every rule object
    own,                \* restricted-domain set each rule was created with
    last,               \* the call that produced this state, with its result
    snap,               \* restricted sets when the latest exception was added
    live,               \* per rule: accepted adds not yet undone by a remove
    passes,             \* rebuild passes made by the latest call
    seed,               \* initial rule collection handed to the constructor
    seeded,             \* the filter the constructor built from seed
    fed,                \* number of rules of seed added one by one so far
    ord,                \* outcomes of adding two rules in either order
    multiMap,           \* a stand-alone MultiMap
    mmLast,             \* the MultiMap call that produced this state
    handlerBehaviorTimeout, \* webrequest.js: id of the pending timer, or null
    timers,             \* the browser's pending timers
    nextTimerId,        \* the id the next setTimeout returns
    behaviorChanged,    \* timers whose callback called handlerBehaviorChanged
    lastEvent,          \* the latest event the listener was notified of
    isEdgeBrowser,      \* adguard.utils.browser.isEdgeBrowser()
    tabFrames,          \* the frame record of each (tabId, frameId)
    frameObjects,       \* the frame records created so far
    apiCalls,           \* calls of tabs.executeScript and tabs.insertCSS
    lastCommitted       \* the latest webNavigation.onCommitted event

debounceVars == <<handlerBehaviorTimeout, timers, nextTimerId, behaviorChanged,
                  lastEvent>>
injectVars == <<isEdgeBrowser, tabFrames, frameObjects, apiCalls,
                lastCommitted>>
webRequestVars == <<debounceVars, injectVars>>
contentVars == <<contentRules, exceptionRulesMap, dirty, restricted, own,
                 last, snap, live, passes, seed, seeded, fed, ord,
                 multiMap, mmLast>>

vars == <<contentRules, exceptionRulesMap, dirty, restricted, own,
          last, snap, live, passes, seed, seeded, fed, ord,
          multiMap, mmLast, webRequestVars>>

filterVars == <<contentRules, exceptionRulesMap, dirty, restricted, own,
                last, snap, live, passes, seed, seeded, fed, ord,
                webRequestVars>>
seedVars == <<seed, seeded, fed, ord>>
multiMapVars == <<multiMap, mmLast>>

Filter == [contentRules |-> contentRules,
           exceptionRulesMap |-> exceptionRulesMap,
           dirty |-> dirty,
           restricted |-> restricted]

\* a call record; a query also records which call it came after
Brief(c) ==
    [op |-> c.op,
     rule |-> IF c.op \in {"addRule", "removeRule"} THEN c.rule ELSE NoRule]
NoBrief == [op |-> "none", rule |-> NoRule]
Call(op, rule, domain, result, after) ==
    [op |-> op, rule |-> rule, domain |-> domain, result |-> result,
     after |-> after]
NoCall == Call("new", NoRule, NoDomain, Null, NoBrief)
NoSnap == [rule |-> NoRule, restricted |-> [r \in RuleIds |-> {}]]

\* keys and values offered to the stand-alone MultiMap
MMKeys == {"K1", "K2", Undefined}
MMValues == {"v1", "v2"}

\* a MultiMap call record; found/values hold what get returned, flag what
\* isEmpty returned
MMCall(op, key, value, found, values, flag) ==
    [op |-> op, key |-> key, value |-> value,
     found |-> found, values |-> values, flag |-> flag]

RegularIds == {r \in RuleIds : ~Rules[r].whiteListRule /\ ~Falsy(Rules[r].tagName)}
ExceptionIds == {r \in RuleIds : Rules[r].whiteListRule /\ ~Falsy(Rules[r].tagName)}

\* number of occurrences of v in sequence s
Occurrences(s, v) == Cardinality({i \in 1..Len(s) : s[i] = v})

\* number of exception rule occurrences held by a MultiMap
RECURSIVE SumLen(_, _)
SumLen(m, ks) ==
    IF ks = {} THEN 0
    ELSE LET k == CHOOSE x \in ks : TRUE
         IN  Len(m.map[k]) + SumLen(m, ks \ {k})
Held(m) == SumLen(m, DOMAIN m.map)

\* the outcomes of the four ways of adding a regular rule and an exception
\* rule: either order, with or without a query between the two adds
NoOrd == [done |-> FALSE, rule |-> NoRule, exception |-> NoRule,
          between |-> NoDomain, outcomes |-> << >>]

\* no onCommitted event has fired yet
NoCommitted ==
    [details |-> [tabId |-> 0, frameId |-> 0], scripts |-> NoScripts,
     selectors |-> NoSelectors, frame |-> NoFrame, executedJS |-> FALSE,
     insertedCSS |-> FALSE]

\* no rule-change event has been notified yet
InitDebounce ==
    /\ handlerBehaviorTimeout = NoTimeout
    /\ timers = {}
    /\ nextTimerId = 1
    /\ behaviorChanged = << >>
    /\ lastEvent = "none"

\* no frame has been recorded yet
InitFrames(edge) ==
    /\ isEdgeBrowser = edge
    /\ tabFrames = [key \in FrameKeys |-> NoFrame]
    /\ frameObjects = << >>
    /\ apiCalls = << >>
    /\ lastCommitted = NoCommitted

InitWebRequest == InitDebounce /\ InitFrames(FALSE)

\* new ContentFilter() with no initial rules
InitFilter ==
    /\ contentRules = << >>
    /\ exceptionRulesMap = NewMultiMap
    /\ dirty = FALSE
    /\ restricted \in [RuleIds -> SUBSET Domains]
    /\ \A r \in RuleIds : restricted[r] \in OwnRestrictedSets[r]
    /\ own = restricted
    /\ last = NoCall
    /\ snap = NoSnap
    /\ live = [r \in RuleIds |-> 0]
    /\ passes = 0
    /\ seed = Null
    /\ seeded = ContentFilter(Null, restricted)
    /\ fed = 0
    /\ ord = NoOrd
    /\ multiMap = NewMultiMap
    /\ mmLast = MMCall("new", "none", "none", FALSE, << >>, FALSE)

\* the extension has started: an empty filter and the listeners added
Init == InitFilter /\ InitWebRequest

Install(f) ==
    /\ contentRules' = f.contentRules
    /\ exceptionRulesMap' = f.exceptionRulesMap
    /\ dirty' = f.dirty
    /\ restricted' = f.restricted

AddRuleCall(rule) ==
    /\ ~Falsy(Rules[rule].tagName) /\ ~Rules[rule].whiteListRule
          => Len(contentRules) < MaxRules
    /\ ~Falsy(Rules[rule].tagName) /\ Rules[rule].whiteListRule
          => Held(exceptionRulesMap) < MaxExceptions
    /\ Install(addRule(Filter, rule))
    /\ last' = Call("addRule", rule, NoDomain, Null, NoBrief)
    /\ snap' = IF rule \in ExceptionIds
               THEN [rule |-> rule, restricted |-> restricted]
               ELSE NoSnap
    /\ live' = IF Falsy(Rules[rule].tagName) THEN live
               ELSE [live EXCEPT ![rule] = @ + 1]
    /\ passes' = 0
    /\ UNCHANGED <<own, multiMap, mmLast, webRequestVars>>

AddRule(rule) == AddRuleCall(rule) /\ UNCHANGED seedVars

RemoveRule(rule) ==
    /\ Install(removeRule(Filter, rule))
    /\ last' = Call("removeRule", rule, NoDomain, Null, NoBrief)
    /\ snap' = NoSnap
    /\ live' = [live EXCEPT ![rule] = IF @ > 0 THEN @ - 1 ELSE 0]
    /\ passes' = 0
    /\ UNCHANGED <<own, multiMap, mmLast, webRequestVars>>
    /\ UNCHANGED seedVars

GetRulesForDomain(domainName) ==
    LET r == getRulesForDomain(Filter, domainName)
    IN  /\ Install(r.filter)
        /\ last' = Call("getRulesForDomain", NoRule, domainName, r.result,
                        Brief(last))
        /\ passes' = getRulesForDomainPasses(Filter)
        /\ UNCHANGED <<own, snap, live, multiMap, mmLast, webRequestVars>>
        /\ UNCHANGED seedVars

GetMatchedElements(doc, domainName) ==
    LET r == getMatchedElements(Filter, doc, domainName)
    IN  /\ Install(r.filter)
        /\ last' = Call("getMatchedElements", doc, domainName, r.result,
                        Brief(last))
        /\ passes' = r.passes
        /\ UNCHANGED <<own, snap, live, multiMap, mmLast, webRequestVars>>
        /\ UNCHANGED seedVars

Next ==
    \/ \E rule \in RuleIds : AddRule(rule)
    \/ \E rule \in RuleIds : RemoveRule(rule)
    \/ \E d \in Domains : GetRulesForDomain(d)
    \/ \E doc \in Docs, d \in Domains : GetMatchedElements(doc, d)

Spec == Init /\ [][Next]_vars

(* ------------------------ constructor seeding -------------------------- *)
\* the collections a caller may hand to the constructor: none, or an array
\* of up to MaxSeed rules
SeedChoices ==
    {Null} \cup {Array(s) : s \in UNION {[1..n -> RuleIds] : n \in 0..MaxSeed}}

\* seeded is new ContentFilter(seed); the filter of the state variables is
\* new ContentFilter(), on which the rules of seed are added one by one
InitSeed ==
    /\ contentRules = << >>
    /\ exceptionRulesMap = NewMultiMap
    /\ dirty = FALSE
    /\ restricted \in [RuleIds -> SUBSET Domains]
    /\ \A r \in RuleIds : restricted[r] \in OwnRestrictedSets[r]
    /\ own = restricted
    /\ last = NoCall
    /\ snap = NoSnap
    /\ live = [r \in RuleIds |-> 0]
    /\ passes = 0
    /\ seed \in SeedChoices
    /\ seeded = ContentFilter(seed, restricted)
    /\ fed = 0
    /\ ord = NoOrd
    /\ multiMap = NewMultiMap
    /\ mmLast = MMCall("new", "none", "none", FALSE, << >>, FALSE)
    /\ InitWebRequest

FeedSeed ==
    /\ fed < Len(seed.items)
    /\ AddRuleCall(seed.items[fed + 1])
    /\ fed' = fed + 1
    /\ UNCHANGED <<seed, seeded, ord>>

NextSeed == FeedSeed

SpecSeed == InitSeed /\ [][NextSeed]_vars

(* -------------------------- order of the adds -------------------------- *)
\* the filter after addRule(first), an optional getRulesForDomain(dq) and
\* addRule(second)
RunAdds(f, first, second, between, dq) ==
    LET f1 == addRule(f, first)
        f2 == IF between THEN getRulesForDomain(f1, dq).filter ELSE f1
    IN  addRule(f2, second)

\* what the callers see of filter f afterwards: for every domain the value
\* of getRulesForDomain and the restricted-domain set of rule after it
Outcome(f, rule) ==
    [d \in Domains |->
        LET q == getRulesForDomain(f, d)
        IN  [result |-> q.result, restricted |-> q.filter.restricted[rule]]]

\* accepted occurrences of each rule in the constructor's collection
SeedLive(rules) ==
    [r \in RuleIds |->
        IF Falsy(Rules[r].tagName) THEN 0 ELSE Occurrences(rules.items, r)]

\* the filter of the state variables is new ContentFilter(seed)
InitOrder ==
    /\ restricted \in [RuleIds -> SUBSET Domains]
    /\ \A r \in RuleIds : restricted[r] \in OwnRestrictedSets[r]
    /\ own = restricted
    /\ seed \in SeedChoices
    /\ seeded = ContentFilter(seed, restricted)
    /\ contentRules = seeded.contentRules
    /\ exceptionRulesMap = seeded.exceptionRulesMap
    /\ dirty = seeded.dirty
    /\ last = NoCall
    /\ snap = NoSnap
    /\ live = SeedLive(seed)
    /\ passes = 0
    /\ fed = Len(seed.items)
    /\ ord = NoOrd
    /\ multiMap = NewMultiMap
    /\ mmLast = MMCall("new", "none", "none", FALSE, << >>, FALSE)
    /\ InitWebRequest

\* a query on the constructed filter, before the two rules are added
FirstQuery(d) ==
    /\ ~ord.done
    /\ last.op = "new"
    /\ GetRulesForDomain(d)

\* adds regular rule R and exception rule E of the same key to the current
\* filter in the four ways and records the four outcomes
CompareOrders(R, E, dq) ==
    /\ ~ord.done
    /\ KeyOf(R) = KeyOf(E)
    /\ ord' = [done |-> TRUE, rule |-> R, exception |-> E, between |-> dq,
               outcomes |->
                  << Outcome(RunAdds(Filter, R, E, FALSE, dq), R),
                     Outcome(RunAdds(Filter, R, E, TRUE, dq), R),
                     Outcome(RunAdds(Filter, E, R, FALSE, dq), R),
                     Outcome(RunAdds(Filter, E, R, TRUE, dq), R) >>]
    /\ UNCHANGED <<contentRules, exceptionRulesMap, dirty, restricted, own,
                   last, snap, live, passes, seed, seeded, fed,
                   multiMap, mmLast, webRequestVars>>

NextOrder ==
    \/ \E d \in Domains : FirstQuery(d)
    \/ \E R \in RegularIds, E \in ExceptionIds, dq \in Domains :
          CompareOrders(R, E, dq)

SpecOrder == InitOrder /\ [][NextOrder]_vars

(* ----------------------- stand-alone MultiMap -------------------------- *)
Put(key, value) ==
    /\ MultiMapHas(multiMap, key) => Len(MultiMapGet(multiMap, key)) < MaxValues
    /\ multiMap.size < MaxSize
    /\ multiMap' = MultiMapPut(multiMap, key, value)
    /\ mmLast' = MMCall("put", key, value, FALSE, << >>, FALSE)
    /\ UNCHANGED filterVars

Remove(key, value) ==
    /\ multiMap' = MultiMapRemove(multiMap, key, value)
    /\ mmLast' = MMCall("remove", key, value, FALSE, << >>, FALSE)
    /\ UNCHANGED filterVars

Get(key) ==
    /\ mmLast' = IF MultiMapHas(multiMap, key)
                 THEN MMCall("get", key, "none", TRUE,
                             MultiMapGet(multiMap, key), FALSE)
                 ELSE MMCall("get", key, "none", FALSE, << >>, FALSE)
    /\ UNCHANGED multiMap
    /\ UNCHANGED filterVars

IsEmpty ==
    /\ mmLast' = MMCall("isEmpty", "none", "none", FALSE, << >>,
                        MultiMapIsEmpty(multiMap))
    /\ UNCHANGED multiMap
    /\ UNCHANGED filterVars

Clear ==
    /\ multiMap' = MultiMapClear(multiMap)
    /\ mmLast' = MMCall("clear", "none", "none", FALSE, << >>, FALSE)
    /\ UNCHANGED filterVars

\* put / remove / get / isEmpty only
NextPutRemove ==
    \/ \E key \in MMKeys, value \in MMValues : Put(key, value)
    \/ \E key \in MMKeys, value \in MMValues : Remove(key, value)
    \/ \E key \in MMKeys : Get(key)
    \/ IsEmpty

SpecPutRemove == Init /\ [][NextPutRemove]_vars

\* all five MultiMap operations
NextMultiMap ==
    \/ \E key \in MMKeys, value \in MMValues : Put(key, value)
    \/ \E key \in MMKeys, value \in MMValues : Remove(key, value)
    \/ \E key \in MMKeys : Get(key)
    \/ IsEmpty
    \/ Clear

SpecMultiMap == Init /\ [][NextMultiMap]_vars

(* ===================== webrequest.js: the listeners ==================== *)
Browser == [handlerBehaviorTimeout |-> handlerBehaviorTimeout,
            timers |-> timers,
            nextTimerId |-> nextTimerId]

InstallBrowser(b) ==
    /\ handlerBehaviorTimeout' = b.handlerBehaviorTimeout
    /\ timers' = b.timers
    /\ nextTimerId' = b.nextTimerId

\* adguard.listeners notifies the listener of an event
NotifyListeners(event) ==
    /\ event \in RuleChangeEvents => nextTimerId <= MaxTimers
    /\ InstallBrowser(handlerBehaviorListener(Browser, event))
    /\ lastEvent' = event
    /\ UNCHANGED behaviorChanged
    /\ UNCHANGED <<contentVars, injectVars>>

\* time passes while a timer is waiting
TimePasses(ms) ==
    /\ \E t \in timers : t.remaining > 0
    /\ timers' = TimersAfter(timers, ms)
    /\ UNCHANGED <<handlerBehaviorTimeout, nextTimerId, behaviorChanged,
                   lastEvent>>
    /\ UNCHANGED <<contentVars, injectVars>>

\* the browser runs the callback of a due timer
TimerFires ==
    \E t \in timers :
        /\ t.remaining = 0
        /\ InstallBrowser(handlerBehaviorCallback(Browser, t))
        /\ behaviorChanged' = Append(behaviorChanged, t.id)
        /\ UNCHANGED lastEvent
        /\ UNCHANGED <<contentVars, injectVars>>

NextDebounce ==
    \/ \E event \in ListenerEvents : NotifyListeners(event)
    \/ \E ms \in Elapsed : TimePasses(ms)
    \/ TimerFires

SpecDebounce == Init /\ [][NextDebounce]_vars

\* time does pass, and the browser does run the callback of a due timer
SpecDebounceFair ==
    /\ SpecDebounce
    /\ WF_vars(\E ms \in Elapsed : TimePasses(ms))
    /\ WF_vars(TimerFires)

Frames == [tabFrames |-> tabFrames,
           frameObjects |-> frameObjects,
           apiCalls |-> apiCalls]

InstallFrames(p) ==
    /\ tabFrames' = p.tabFrames
    /\ frameObjects' = p.frameObjects
    /\ apiCalls' = p.apiCalls

\* a document or subdocument request records its frame
RecordFrame(tabId, frameId) ==
    /\ Len(frameObjects) < MaxFrames
    /\ InstallFrames(recordFrame(Frames, tabId, frameId))
    /\ UNCHANGED <<isEdgeBrowser, lastCommitted>>
    /\ UNCHANGED <<contentVars, debounceVars>>

\* webNavigation.onCommitted fires; scripts and selectors are what
\* processGetSelectorsAndScripts returns to the two listeners.  lastCommitted
\* keeps the event and what getTabFrame found before the listeners ran.
OnCommitted(details, scripts, selectors) ==
    LET frame == getTabFrame(Frames, details.tabId, details.frameId)
    IN  /\ InstallFrames(onCommitted(Frames, isEdgeBrowser, details, scripts,
                                     selectors))
        /\ lastCommitted' =
              [details |-> details, scripts |-> scripts,
               selectors |-> selectors, frame |-> frame,
               executedJS |-> frame # NoFrame /\ frameObjects[frame].executedJS,
               insertedCSS |-> frame # NoFrame
                               /\ frameObjects[frame].insertedCSS]
        /\ UNCHANGED isEdgeBrowser
        /\ UNCHANGED <<contentVars, debounceVars>>

NextInject ==
    \/ \E key \in FrameKeys : RecordFrame(key[1], key[2])
    \/ \E details \in Details, scripts \in ScriptsResults,
          selectors \in SelectorsResults :
          OnCommitted(details, scripts, selectors)

\* the browser is Edge or another one
InitInject ==
    /\ InitFilter
    /\ InitDebounce
    /\ \E edge \in BOOLEAN : InitFrames(edge)

SpecInject == InitInject /\ [][NextInject]_vars

(* ============================== claims ================================= *)

(* ---------------------- helpers for the claims ------------------------- *)

\* the exception rules held under the key of r, as a sequence
ExceptionsFor(m, r) ==
    IF MultiMapHas(m, KeyOf(r)) THEN MultiMapGet(m, KeyOf(r)) ELSE << >>

\* the set of elements of a sequence
Elems(s) == {s[i] : i \in 1..Len(s)}

\* occurrences of rule r in the exception index
HeldOccurrences(m, r) == Occurrences(ExceptionsFor(m, r), r)

\* C1: after addRule of an exception rule E (key K, permitted domains P) the
\* very next getRulesForDomain(d) returns no regular rule with key K when
\* d is in P, and still returns every regular rule with key K that is
\* permitted on d when d is not in P and no other held exception permits d.
C1_LazyRebuild ==
    [][ (/\ last.op = "addRule"
         /\ last.rule \in ExceptionIds
         /\ last'.op = "getRulesForDomain")
        => LET E == last.rule
               d == last'.domain
               returned == Elems(last'.result.items)
           IN  /\ d \in getPermittedDomains(E) =>
                     \A R \in returned : KeyOf(R) # KeyOf(E)
               /\ d \notin getPermittedDomains(E) =>
                     \A R \in Elems(contentRules) :
                        (/\ KeyOf(R) = KeyOf(E)
                         /\ isPermitted(restricted, R, d)
                         /\ \A X \in Elems(ExceptionsFor(exceptionRulesMap, R)) :
                                d \notin getPermittedDomains(X))
                        => R \in returned ]_vars

\* witness for C1: a query right after the add of an exception rule, for a
\* domain the exception permits, with a regular rule of the same key that
\* was created unrestricted on that domain and is not returned
C1_Witness ==
    /\ last.op = "getRulesForDomain"
    /\ last.after.op = "addRule"
    /\ last.after.rule \in ExceptionIds
    /\ last.domain \in getPermittedDomains(last.after.rule)
    /\ \E R \in Elems(contentRules) :
          /\ KeyOf(R) = KeyOf(last.after.rule)
          /\ last.domain \notin own[R]
          /\ Rules[R].permittedDomains = {}
          /\ R \notin Elems(last.result.items)

\* C2: addRule(E) followed by removeRule(E), with or without queries in
\* between, leaves every regular rule sharing E's key with exactly the
\* restricted-domain set it had before E was added.
C2_RoundTrip ==
    [][ (/\ snap.rule # NoRule
         /\ last'.op = "removeRule"
         /\ last'.rule = snap.rule)
        => \A R \in Elems(contentRules) :
              KeyOf(R) = KeyOf(snap.rule) =>
                  restricted'[R] = snap.restricted[R] ]_vars

\* C3: whenever dirty is false, every exception rule held under the key of
\* a regular rule of contentRules has its permitted domains inside that
\* rule's restricted-domain set.
C3_Soundness ==
    ~dirty =>
        \A R \in Elems(contentRules) :
            \A E \in Elems(ExceptionsFor(exceptionRulesMap, R)) :
                getPermittedDomains(E) \subseteq restricted[R]

\* witness for C3: a clean filter holding a regular rule restricted only
\* because of an exception rule held under its key
C3_Witness ==
    /\ ~dirty
    /\ last.op = "getRulesForDomain"
    /\ \E R \in Elems(contentRules) :
          /\ own[R] = {}
          /\ restricted[R] # {}
          /\ Elems(ExceptionsFor(exceptionRulesMap, R)) # {}

\* C4: removeRule of a rule that is in neither collection leaves
\* contentRules, the exception index and every restricted-domain set
\* unchanged.
C4_RemoveAbsentNoOp ==
    [][ (/\ last'.op = "removeRule"
         /\ last'.rule \notin Elems(contentRules)
         /\ HeldOccurrences(exceptionRulesMap, last'.rule) = 0)
        => UNCHANGED <<contentRules, exceptionRulesMap, restricted>> ]_vars

\* C5: every rule with an accepted add not undone by a remove is in exactly
\* one of contentRules and the exception index; contentRules holds only
\* non-exception rules and the exception index only exception rules.
C5_Partition ==
    /\ \A r \in RuleIds :
          live[r] > 0 =>
              (r \in Elems(contentRules))
                  # (HeldOccurrences(exceptionRulesMap, r) > 0)
    /\ \A r \in Elems(contentRules) : ~Rules[r].whiteListRule
    /\ \A k \in DOMAIN exceptionRulesMap.map :
          \A r \in Elems(exceptionRulesMap.map[k]) :
              Rules[r].whiteListRule /\ PropKey(KeyOf(r)) = k

\* witness for C5: a regular and an exception rule are both in the set, and
\* one rule added twice has been removed once
C5_Witness ==
    /\ last.op = "removeRule"
    /\ live[last.rule] = 1
    /\ \E r \in RegularIds : live[r] > 0
    /\ \E e \in ExceptionIds : live[e] > 0

\* C6: getRulesForDomain(d) returns the rules of contentRules that are
\* permitted on d once the held exceptions are applied, in contentRules
\* order, and returns null exactly when there is no such rule.
C6_QueryResult ==
    [][ last'.op = "getRulesForDomain"
        => LET d == last'.domain
               applied(R) ==
                   IF dirty
                   THEN restricted[R] \cup
                        UNION {getPermittedDomains(E) :
                                 E \in Elems(ExceptionsFor(exceptionRulesMap, R))}
                   ELSE restricted[R]
               ok(R) == /\ d \notin applied(R)
                        /\ \/ Rules[R].permittedDomains = {}
                           \/ d \in Rules[R].permittedDomains
               expected == SelectSeq(contentRules, ok)
           IN  /\ expected = << >> => last'.result = Null
               /\ expected # << >> =>
                     /\ ~last'.result.isNull
                     /\ last'.result.items = expected ]_vars

\* witness for C6: a query that returned the second of two rules and
\* filtered the first
C6_Witness ==
    /\ last.op = "getRulesForDomain"
    /\ Len(contentRules) = 2
    /\ ~last.result.isNull
    /\ last.result.items = <<contentRules[2]>>
    /\ contentRules[1] # contentRules[2]

\* C7: when exception rule E is held twice under its key, removeRule(E)
\* leaves exactly one occurrence, and the next getRulesForDomain(d) for d
\* permitted by E returns no regular rule with E's key.
C7_DuplicateException ==
    [][ /\ (/\ last'.op = "removeRule"
            /\ HeldOccurrences(exceptionRulesMap, last'.rule) = 2)
           => HeldOccurrences(exceptionRulesMap', last'.rule) = 1
        /\ (/\ last.op = "removeRule"
            /\ HeldOccurrences(exceptionRulesMap, last.rule) = 1
            /\ last'.op = "getRulesForDomain"
            /\ last'.domain \in getPermittedDomains(last.rule))
           => \A R \in Elems(last'.result.items) :
                  KeyOf(R) # KeyOf(last.rule) ]_vars

\* witness for C7: a query right after the removal of one of two
\* occurrences of an exception rule, for a domain the rule permits, with a
\* regular rule of the same key that was created unrestricted
C7_Witness ==
    /\ last.op = "getRulesForDomain"
    /\ last.after.op = "removeRule"
    /\ last.after.rule \in ExceptionIds
    /\ live[last.after.rule] = 1
    /\ HeldOccurrences(exceptionRulesMap, last.after.rule) = 1
    /\ last.domain \in getPermittedDomains(last.after.rule)
    /\ \E R \in Elems(contentRules) :
          /\ KeyOf(R) = KeyOf(last.after.rule)
          /\ own[R] = {}
          /\ R \notin Elems(last.result.items)

\* C8: after clear(), isEmpty() is true and get(k) is absent for every key,
\* and a later put followed by remove of the same value leaves isEmpty() true.
\* Stated on the state right after clear() and on every put/remove pair that
\* empties the map again.
C8_ClearResetsCount ==
    /\ mmLast.op = "clear" =>
          /\ MultiMapIsEmpty(multiMap)
          /\ \A k \in MMKeys : ~MultiMapHas(multiMap, k)
    /\ (mmLast.op = "remove" /\ DOMAIN multiMap.map = {}) =>
          MultiMapIsEmpty(multiMap)

\* C9: after any sequence of put and remove calls the tracked size is the
\* number of keys present, no present key maps to an empty array, and
\* isEmpty() holds exactly when no key has a non-empty array.
C9_CountInvariant ==
    /\ multiMap.size = Cardinality(DOMAIN multiMap.map)
    /\ \A k \in DOMAIN multiMap.map : Len(multiMap.map[k]) > 0
    /\ MultiMapIsEmpty(multiMap) <=>
          ~(\E k \in DOMAIN multiMap.map : Len(multiMap.map[k]) > 0)
    /\ mmLast.op = "isEmpty" =>
          (mmLast.flag <=> ~(\E k \in MMKeys : MultiMapHas(multiMap, k)))

\* witness for C9: a remove has just emptied one key's array while another
\* key is still present
C9_Witness ==
    /\ mmLast.op = "remove"
    /\ ~MultiMapHas(multiMap, mmLast.key)
    /\ multiMap.size = 1
    /\ \E k \in MMKeys : MultiMapHas(multiMap, k) /\ Len(MultiMapGet(multiMap, k)) = 2


\* C10: addRule of a rule without a tag name leaves contentRules, the
\* exception index and dirty unchanged, for exception and regular rules.
C10_InvalidIgnored ==
    [][ (last'.op = "addRule" /\ Falsy(Rules[last'.rule].tagName))
        => UNCHANGED <<contentRules, exceptionRulesMap, dirty>> ]_vars

\* witness for C10: an exception rule without a tag name was just added to
\* a clean, non-empty filter
C10_Witness ==
    /\ last.op = "addRule"
    /\ Falsy(Rules[last.rule].tagName)
    /\ Rules[last.rule].whiteListRule
    /\ ~dirty
    /\ contentRules # << >>
    /\ ~MultiMapIsEmpty(exceptionRulesMap)

\* the two query operations
QueryOps == {"getRulesForDomain", "getMatchedElements"}

\* the elements a rule selects in a document, as a sequence
ElementsOf(r, doc) ==
    LET e == ruleGetMatchedElements(r, doc)
    IN  IF e.isNull THEN << >> ELSE e.items

\* concatenation of the elements selected by each rule of a sequence
RECURSIVE ConcatAll(_, _)
ConcatAll(rules, doc) ==
    IF rules = << >> THEN << >>
    ELSE ElementsOf(Head(rules), doc) \o ConcatAll(Tail(rules), doc)

\* every exception rule held by the index, under any key
AllHeld(m) == UNION {Elems(m.map[k]) : k \in DOMAIN m.map}

\* C11: getMatchedElements(doc, d) returns the concatenation, in rule order,
\* of what each rule returned by getRulesForDomain(d) selects in doc, and
\* returns null exactly when getRulesForDomain(d) is null or no applicable
\* rule selects anything.
C11_MatchedElements ==
    [][ last'.op = "getMatchedElements"
        => LET q == getRulesForDomain(Filter, last'.domain)
               expected == ConcatAll(q.result.items, last'.rule)
           IN  /\ (q.result.isNull \/ expected = << >>) <=> last'.result.isNull
               /\ last'.result.items = expected
               /\ restricted' = q.filter.restricted
               /\ dirty' = q.filter.dirty ]_vars

\* witness for C11: a call that returned the elements of two rules, the two
\* elements of the first rule before the element of the second
C11_Witness ==
    /\ last.op = "getMatchedElements"
    /\ ~last.result.isNull
    /\ last.result.items = <<"e1", "e2", "e3">>
    /\ Len(contentRules) = 2

\* C12: removeRule of a non-exception rule changes no restricted-domain set
\* and does not change the exception index.
C12_RegularRemovalFrame ==
    [][ (last'.op = "removeRule" /\ ~Rules[last'.rule].whiteListRule)
        => UNCHANGED <<restricted, exceptionRulesMap>> ]_vars

\* witness for C12: a regular rule limited to some domains has just been
\* removed while another rule of its key is still held with restrictions on
\* those domains
C12_Witness ==
    /\ last.op = "removeRule"
    /\ last.rule \in RegularIds
    /\ live[last.rule] = 0
    /\ last.rule \notin Elems(contentRules)
    /\ \E R \in Elems(contentRules) :
          /\ KeyOf(R) = KeyOf(last.rule)
          /\ restricted[R] \cap getPermittedDomains(last.rule) # {}
    /\ ~MultiMapIsEmpty(exceptionRulesMap)

\* C14: every query call makes at most one rebuild pass, and a query that
\* follows a query makes none and leaves every restricted-domain set and
\* dirty unchanged.
C14_NoDoubleApply ==
    [][ /\ last'.op \in QueryOps => passes' <= 1
        /\ (last.op \in QueryOps /\ last'.op \in QueryOps)
           => /\ passes' = 0
              /\ UNCHANGED <<restricted, dirty>> ]_vars

\* witness for C14: a getMatchedElements call right after another query,
\* on a filter where an exception rule has been applied to a regular rule
C14_Witness ==
    /\ last.op = "getMatchedElements"
    /\ last.after.op \in QueryOps
    /\ passes = 0
    /\ \E R \in Elems(contentRules) :
          /\ own[R] = {}
          /\ restricted[R] # {}
          /\ Elems(ExceptionsFor(exceptionRulesMap, R)) # {}

\* C15: dirty is true right after every addRule of a rule with a tag name
\* and after every removeRule, and false on return from every query.
C15_StaleProtocol ==
    /\ (last.op = "addRule" /\ ~Falsy(Rules[last.rule].tagName)) => dirty
    /\ last.op = "removeRule" => dirty
    /\ last.op \in QueryOps => ~dirty

\* witness for C15: a query right after a mutation, on a filter whose
\* exception index is empty
C15_Witness ==
    /\ last.op \in QueryOps
    /\ last.after.op \in {"addRule", "removeRule"}
    /\ passes = 1
    /\ MultiMapIsEmpty(exceptionRulesMap)
    /\ contentRules # << >>
    /\ ~dirty

\* C16: adding or removing an exception rule with key K leaves the
\* restricted-domain set of every rule with another key unchanged, and a
\* query adds to a rule's set only domains permitted by held exception
\* rules of that rule's own key.
C16_KeyIsolation ==
    [][ /\ (last'.op \in {"addRule", "removeRule"}
            /\ Rules[last'.rule].whiteListRule)
           => \A R \in RuleIds :
                 KeyOf(R) # KeyOf(last'.rule) => restricted'[R] = restricted[R]
        /\ last'.op \in QueryOps
           => \A R \in RuleIds :
                 /\ restricted[R] \subseteq restricted'[R]
                 /\ restricted'[R] \ restricted[R] \subseteq
                       UNION {getPermittedDomains(E) :
                                E \in {X \in AllHeld(exceptionRulesMap) :
                                         KeyOf(X) = KeyOf(R)}} ]_vars

\* witness for C16: an exception rule has just been removed while a regular
\* rule of another key is held with a restriction on a domain that the
\* removed rule permits
C16_Witness ==
    /\ last.op = "removeRule"
    /\ last.rule \in ExceptionIds
    /\ \E R \in Elems(contentRules) :
          /\ KeyOf(R) # KeyOf(last.rule)
          /\ restricted[R] \cap getPermittedDomains(last.rule) # {}

\* C18: when two distinct exception rules of one key both permit d, the
\* query for d that follows the removal of one of them returns no regular
\* rule of that key.
C18_OverlappingExceptions ==
    [][ (/\ last.op = "removeRule"
         /\ last.rule \in ExceptionIds
         /\ last'.op = "getRulesForDomain"
         /\ last'.domain \in getPermittedDomains(last.rule)
         /\ \E E2 \in AllHeld(exceptionRulesMap) :
               /\ E2 # last.rule
               /\ KeyOf(E2) = KeyOf(last.rule)
               /\ last'.domain \in getPermittedDomains(E2))
        => \A R \in Elems(last'.result.items) :
               KeyOf(R) # KeyOf(last.rule) ]_vars

\* witness for C18: a query after the removal of one of two exception rules
\* that both permit the domain, where the removal had taken the domain out
\* of a regular rule's restricted set and that rule is still not returned
C18_Witness ==
    /\ last.op = "getRulesForDomain"
    /\ last.after.op = "removeRule"
    /\ last.after.rule \in ExceptionIds
    /\ HeldOccurrences(exceptionRulesMap, last.after.rule) = 0
    /\ last.domain \in getPermittedDomains(last.after.rule)
    /\ \E E2 \in AllHeld(exceptionRulesMap) :
          /\ KeyOf(E2) = KeyOf(last.after.rule)
          /\ last.domain \in getPermittedDomains(E2)
    /\ \E R \in Elems(contentRules) :
          /\ KeyOf(R) = KeyOf(last.after.rule)
          /\ own[R] = {}
          /\ Rules[R].permittedDomains = {}
          /\ R \notin Elems(last.result.items)

\* C19: after a query, a domain is in the restricted-domain set of a rule
\* of contentRules only if the rule was created with it or a held exception
\* rule of the rule's key permits it.
C19_NoLeftover ==
    last.op \in QueryOps =>
        \A R \in Elems(contentRules) :
            restricted[R] \subseteq
                own[R] \cup
                UNION {getPermittedDomains(E) :
                         E \in Elems(ExceptionsFor(exceptionRulesMap, R))}

\* C20: every rule returned by getRulesForDomain is a non-exception rule
\* that is in contentRules and has an accepted add not undone by a remove.
C20_OnlyRegularReturned ==
    last.op = "getRulesForDomain" =>
        \A r \in Elems(last.result.items) :
            /\ ~Rules[r].whiteListRule
            /\ r \in Elems(contentRules)
            /\ live[r] > 0

\* witness for C20: a query that returned a rule while an exception rule is
\* held and a rule that used to be in contentRules has been removed
C20_Witness ==
    /\ last.op = "getRulesForDomain"
    /\ last.after.op = "removeRule"
    /\ last.after.rule \in RegularIds
    /\ live[last.after.rule] = 0
    /\ ~last.result.isNull
    /\ ~MultiMapIsEmpty(exceptionRulesMap)

\* C13: a filter constructed with an initial collection is in the state of
\* an empty filter on which addRule was called for each rule in order, and
\* a filter constructed with no or an empty collection has empty
\* collections and dirty = false.
C13_ConstructorSeeding ==
    /\ fed = Len(seed.items) => seeded = Filter
    /\ (seed.isNull \/ seed.items = << >>) =>
          /\ seeded.contentRules = << >>
          /\ seeded.exceptionRulesMap = NewMultiMap
          /\ ~seeded.dirty

\* witness for C13: all rules of a seed holding a regular rule, an exception
\* rule and nothing else have been added one by one
C13_Witness ==
    /\ ~seed.isNull
    /\ Len(seed.items) = 2
    /\ fed = 2
    /\ Elems(seed.items) \cap RegularIds # {}
    /\ Elems(seed.items) \cap ExceptionIds # {}
    /\ dirty

\* C17: for a regular rule R and an exception rule E of the same key, adding
\* R then E and adding E then R, with or without a query between the two
\* adds, give the same getRulesForDomain(d) result for every domain d and
\* the same restricted-domain set of R after the query.
C17_AddOrderIndependence ==
    ord.done =>
        \A i \in 1..Len(ord.outcomes), j \in 1..Len(ord.outcomes) :
            ord.outcomes[i] = ord.outcomes[j]

\* witness for C17: the four outcomes were recorded for a filter that was
\* clean before the adds, and in them the exception restricts R beyond the
\* set R was created with, so that R is returned for one domain only
C17_Witness ==
    /\ ord.done
    /\ ~dirty
    /\ Len(ord.outcomes) = 4
    /\ \E d \in Domains :
          /\ d \notin own[ord.rule]
          /\ d \in ord.outcomes[1][d].restricted
          /\ ord.rule \notin Elems(ord.outcomes[1][d].result.items)
    /\ \E d \in Domains :
          ord.rule \in Elems(ord.outcomes[4][d].result.items)

(* ----------------------------- C21 ------------------------------------ *)
TimerIds == 1..MaxTimers

\* the timer started by the latest rule-change event
LatestTimer == nextTimerId - 1

\* at most one timer is pending, and it is the one handlerBehaviorTimeout
\* names; no timer's callback has called handlerBehaviorChanged twice
C21_OnePending ==
    /\ Cardinality(timers) <= 1
    /\ \A t \in timers :
          ~handlerBehaviorTimeout.isNull /\ handlerBehaviorTimeout.id = t.id
    /\ ~handlerBehaviorTimeout.isNull =>
          \E t \in timers : t.id = handlerBehaviorTimeout.id
    /\ \A i \in TimerIds : Occurrences(behaviorChanged, i) <= 1

\* a rule-change event cancels the pending timer and starts a fresh one with
\* the full delay
C21_EventRestarts ==
    nextTimerId' # nextTimerId =>
        /\ lastEvent' \in RuleChangeEvents
        /\ timers' = {[id |-> nextTimerId, remaining |-> HandlerBehaviorDelay]}
        /\ handlerBehaviorTimeout' = TimeoutId(nextTimerId)
        /\ \A t \in timers : t.id # nextTimerId

\* handlerBehaviorChanged is called only by the timer of the latest event,
\* once that timer is due, and leaves no timer pending
C21_CallByLatest ==
    behaviorChanged' # behaviorChanged =>
        /\ behaviorChanged' = Append(behaviorChanged, LatestTimer)
        /\ timers = {[id |-> LatestTimer, remaining |-> 0]}
        /\ timers' = {}
        /\ handlerBehaviorTimeout' = NoTimeout

\* timer i is pending and no later event has superseded it
Pending(i) == LatestTimer = i /\ \E t \in timers : t.id = i

\* timer i was superseded by a later event, or its callback has called
\* handlerBehaviorChanged exactly once and no timer is pending
Settled(i) ==
    \/ LatestTimer > i
    \/ /\ Occurrences(behaviorChanged, i) = 1
       /\ timers = {}
       /\ handlerBehaviorTimeout.isNull

\* C21: rule-change debounce.  At most one handlerBehaviorChanged timer is
\* pending at any time; each rule-change event cancels the pending timer and
\* starts a fresh one; handlerBehaviorChanged is never called by a timer
\* that a later event has superseded; and the timer of the last event of a
\* burst eventually calls it exactly once, after which no timer is pending.
C21_Debounce ==
    /\ []C21_OnePending
    /\ [][C21_EventRestarts /\ C21_CallByLatest]_vars
    /\ \A i \in TimerIds : Pending(i) ~> Settled(i)

\* a burst of two events was followed by a single call, made by the timer of
\* the second event
C21_Witness ==
    /\ nextTimerId = 3
    /\ behaviorChanged = <<2>>
    /\ timers = {}
    /\ handlerBehaviorTimeout.isNull

(* ----------------------------- C22 ------------------------------------ *)
\* the calls of api made for frame record f
CallsFor(api, f) ==
    {i \in 1..Len(apiCalls) : apiCalls[i].api = api /\ apiCalls[i].frame = f}

\* every frame record got at most one executeScript and at most one
\* insertCSS, and every insertCSS was made for a top frame
C22_AtMostOnce ==
    /\ \A f \in 1..Len(frameObjects) :
          /\ Cardinality(CallsFor("executeScript", f)) <= 1
          /\ Cardinality(CallsFor("insertCSS", f)) <= 1
    /\ \A i \in 1..Len(apiCalls) :
          /\ apiCalls[i].frame \in 1..Len(frameObjects)
          /\ apiCalls[i].api = "insertCSS" => apiCalls[i].frameId = TopFrameId

\* the calls a step adds to apiCalls
NewCalls == {apiCalls'[i] : i \in (Len(apiCalls) + 1)..Len(apiCalls')}

\* a step injects scripts only into the committed frame, when its record is
\* known, has executedJS unset and there are scripts; it inserts CSS only
\* for a committed top frame whose record is known, has insertedCSS unset
\* and there are stylesheets
C22_OnlyWhenDue ==
    /\ \A i \in 1..Len(apiCalls) : apiCalls'[i] = apiCalls[i]
    /\ \A c \in NewCalls :
          /\ ~isEdgeBrowser
          /\ c.tabId = lastCommitted'.details.tabId
          /\ c.frameId = lastCommitted'.details.frameId
          /\ c.frame = lastCommitted'.frame
          /\ c.frame # NoFrame
          /\ c.api = "executeScript" =>
                /\ ~lastCommitted'.executedJS
                /\ ~lastCommitted'.scripts.isUndefined
                /\ Len(lastCommitted'.scripts.chars) > 0
          /\ c.api = "insertCSS" =>
                /\ c.frameId = TopFrameId
                /\ ~lastCommitted'.insertedCSS
                /\ ~lastCommitted'.selectors.isUndefined
                /\ ~lastCommitted'.selectors.css.isNull
    /\ \A c, d \in NewCalls : c.api = d.api => c = d
    /\ Len(apiCalls') <= Len(apiCalls) + 2

\* C22: once-per-frame injection.  Over any sequence of onCommitted events,
\* scripts are injected into a recorded frame at most once (never once its
\* executedJS is set, never for an unknown frame, never without scripts), and
\* CSS is inserted at most once per frame and only for the top frame.
C22_OncePerFrame ==
    /\ []C22_AtMostOnce
    /\ [][C22_OnlyWhenDue]_vars

\* the top frame of a tab got its scripts and its CSS, and a later
\* onCommitted event for it that again offered scripts and stylesheets
\* added no call
C22_Witness ==
    /\ lastCommitted.frame # NoFrame
    /\ lastCommitted.details.frameId = TopFrameId
    /\ lastCommitted.executedJS
    /\ lastCommitted.insertedCSS
    /\ ~ScriptsFalsy(lastCommitted.scripts)
    /\ ~lastCommitted.selectors.isUndefined
    /\ ~lastCommitted.selectors.css.isNull
    /\ Cardinality(CallsFor("executeScript", lastCommitted.frame)) = 1
    /\ Cardinality(CallsFor("insertCSS", lastCommitted.frame)) = 1
    /\ \E key \in FrameKeys :
          /\ tabFrames[key] # NoFrame
          /\ key[2] # TopFrameId
          /\ frameObjects[tabFrames[key]].executedJS

====
